---- MODULE Spec2Model ----
(***************************************************************************)
(* Model of GoveeHomebridgePlatform (src/src/platform.ts): the routing of  *)
(* discovered readings to accessory handlers through the discovery cache,  *)
(* and the scan / cooldown cycle driven by timers and the scan-stop        *)
(* notification of the bluetooth client.                                   *)
(*                                                                         *)
(* Strings are sequences of one-character strings.  A missing property of  *)
(* a reading (JavaScript undefined) is the value Undefined.                *)
(***************************************************************************)
EXTENDS Integers, Sequences, FiniteSets, TLC

VARIABLES
    platformStatus,   \* this.platformStatus: "undefined" | "didFinishLaunching" | "shutdown"
    isCooldown,       \* this.isCooldown: "undefined" | "false" | "true"
    scanDuration,     \* this.config.scanDuration
    accessories,      \* this.accessories: restored accessories, UUID -> context
    discoveryCache,   \* this.discoveryCache: UUID -> handler (index into handlers)
    handlers,         \* every GoveePlatformAccessory constructed, in order
    registered,       \* api.registerPlatformAccessories calls: sequence of accessories
    updated,          \* api.updatePlatformAccessories calls: sequence of UUIDs
    routed,           \* history: the id and the key computed for the readings not rejected
    last,             \* history: what the last handler invocation did
    scanning,         \* radio: a scan is running
    readingCb,        \* radio: the reading callback passed to startDiscovery is set
    scanStartCb,      \* radio: number of registerScanStart calls
    scanStopCb,       \* radio: number of registerScanStop calls
    stopEvents,       \* radio: scan-stop notifications not yet delivered
    scanTimers,       \* pending setTimeout(scanDuration) callbacks
    cooldownTimers,   \* pending setTimeout(cooldownDuration) callbacks
    stallTimers,      \* pending setTimeout(WAIT_INTERVAL = 5000) callbacks
    calls,            \* history: counters of calls made and notifications handled
    sanitizeRun       \* a string given to sanitize, and the results of sanitize applied
                      \* to it and then to each result

discoveryVars == <<accessories, discoveryCache, handlers, registered, updated, routed>>
radioVars == <<scanning, readingCb, scanStartCb, scanStopCb, stopEvents>>
timerVars == <<scanTimers, cooldownTimers, stallTimers>>
vars == <<platformStatus, isCooldown, scanDuration, discoveryVars, last,
          radioVars, timerVars, calls, sanitizeRun>>

-----------------------------------------------------------------------------
(* Bounds of the model *)

MaxReadings == 3     \* readings delivered in one run
MaxStarts == 3       \* startScanCycle invocations in one run
MaxStalls == 2       \* unrequested scan stops in one run
MaxStrLen == 4       \* length of the strings given to sanitize

(* Program constants: the defaults of batteryThreshold and humidityOffset *)

ConfigBatteryThreshold == 25
ConfigHumidityOffset == 0

-----------------------------------------------------------------------------
(* Strings *)

Undefined == <<"undefined">>

Str_a_b == <<"a", "_", "b">>
Str_sp_a_b_sp == <<" ", "a", "_", "b", " ">>
Str_ab == <<"a", "b">>

\* values a reading's uuid or model can carry
HintValues == {Undefined, <<>>, Str_a_b, Str_sp_a_b_sp, Str_ab}
AddressValues == {<<"a", "_", "1">>}
Readings == [uuid : HintValues, model : HintValues, address : AddressValues]

\* JavaScript truthiness of an optional string
Truthy(s) == s # Undefined /\ s # <<>>

IsSpace(c) == c = " "

RECURSIVE TrimLeft(_)
TrimLeft(s) ==
    IF s # <<>> /\ IsSpace(Head(s)) THEN TrimLeft(Tail(s)) ELSE s

RECURSIVE TrimRight(_)
TrimRight(s) ==
    IF s # <<>> /\ IsSpace(s[Len(s)]) THEN TrimRight(SubSeq(s, 1, Len(s) - 1)) ELSE s

\* String.prototype.trim
Trim(s) == TrimRight(TrimLeft(s))

\* String.prototype.replace with a string pattern: the first occurrence only
RECURSIVE ReplaceFirst(_, _)
ReplaceFirst(s, c) ==
    IF s = <<>> THEN <<>>
    ELSE IF Head(s) = c THEN Tail(s)
    ELSE <<Head(s)>> \o ReplaceFirst(Tail(s), c)

\* sanitize(s) = s.trim().replace("_", "")
Sanitize(s) == ReplaceFirst(Trim(s), "_")

\* s.trim() on undefined raises a TypeError
SanitizeThrows(s) == s = Undefined

-----------------------------------------------------------------------------
(* Identity of a reading *)

\* mutant: the uuid taken first, the model only as a fallback
ResolveIdPreferUuid(reading) ==
    IF Truthy(reading.uuid) THEN reading.uuid ELSE reading.model

\* let deviceUniqueId = reading.uuid; if (reading.model) deviceUniqueId = reading.model
ResolveId(reading) ==
    IF Truthy(reading.model) THEN reading.model ELSE reading.uuid

\* mutant: only a missing id is refused (=== undefined), an empty one passes
RejectedOnlyUndefined(reading) == ResolveId(reading) = Undefined

\* if (!deviceUniqueId) { log.error(...); return; }
Rejected(reading) == ~Truthy(ResolveId(reading))

\* api.hap.uuid.generate(seed): an opaque id, equal for equal seeds only
Generate(seed) == <<"uuid", seed>>

\* mutant: the id sanitized before the UUID is generated
IdentityKeySanitized(reading) == Generate(Sanitize(ResolveId(reading)))

\* const uuid = this.api.hap.uuid.generate(deviceUniqueId)
IdentityKey(reading) == Generate(ResolveId(reading))

\* mutant: the lookup compares another property and never matches
ExistingAccessoryNeverFound(uuid) == FALSE

\* this.accessories.find((accessory) => accessory.UUID === uuid)
ExistingAccessory(uuid) == uuid \in DOMAIN accessories

\* UUIDs the host can hold from earlier runs
PersistedUUIDs == {Generate(s) : s \in {h \in HintValues : Truthy(h)}}

\* context of an accessory persisted by an earlier run under another configuration
StaleContext == [batteryThreshold |-> 10, humidityOffset |-> 5]

\* mutant: only the battery threshold is refreshed
RefreshedContextThresholdOnly(context) ==
    [context EXCEPT !.batteryThreshold = ConfigBatteryThreshold]

\* existingAccessory.context.batteryThreshold = this.config.batteryThreshold;
\* existingAccessory.context.humidityOffset = this.config.humidityOffset
RefreshedContext(context) ==
    [context EXCEPT !.batteryThreshold = ConfigBatteryThreshold,
                    !.humidityOffset = ConfigHumidityOffset]

\* config.IgnoreDeviceNames, as a user can set it; platform.ts never reads it
IgnoreDeviceNames == {Str_ab}

\* what a step did: the handler run, its branch, the notification it consumed,
\* the reading it was given and the key it computed
Did(op, outcome) ==
    [op |-> op, outcome |-> outcome, tag |-> "-", reading |-> Undefined, key |-> Undefined]

Bump(field) == [calls EXCEPT ![field] = @ + 1]

-----------------------------------------------------------------------------
(* Host: restoring persisted accessories, before didFinishLaunching *)

ConfigureAccessory(uuid) ==
    /\ platformStatus = "undefined"
    /\ uuid \notin DOMAIN accessories
    /\ accessories' = accessories @@ (uuid :> StaleContext)
    /\ last' = Did("configureAccessory", "pushed")
    /\ UNCHANGED <<platformStatus, isCooldown, scanDuration, sanitizeRun, discoveryCache, handlers,
                   registered, updated, routed, radioVars, timerVars, calls>>

-----------------------------------------------------------------------------
(* goveeDiscoveredReading *)

\* new GoveePlatformAccessory(this, accessory, reading)
NewHandler(uuid, reading) == [accessory |-> uuid, updates |-> 0]

NewAccessory(uuid, reading) ==
    [UUID |-> uuid,
     displayName |-> Sanitize(reading.model),
     context |-> [device |-> [address |-> Sanitize(reading.address),
                              model |-> Sanitize(reading.model),
                              uuid |-> reading.uuid],
                  batteryThreshold |-> ConfigBatteryThreshold,
                  humidityOffset |-> ConfigHumidityOffset]]

GoveeDiscoveredReading(reading) ==
    LET uuid == IdentityKey(reading)
        done(outcome) ==
            /\ last' = [Did("reading", outcome) EXCEPT
                            !.reading = reading,
                            !.key = IF Rejected(reading) THEN Undefined ELSE uuid]
            /\ routed' = IF Rejected(reading) THEN routed
                          ELSE routed \cup {[id |-> ResolveId(reading), key |-> uuid]}
            /\ calls' = Bump("readings")
    IN  /\ scanning
        /\ readingCb
        /\ calls.readings < MaxReadings
        /\ IF Rejected(reading)
             THEN /\ done("rejected")
                  /\ UNCHANGED <<accessories, discoveryCache, handlers, registered, updated>>
           ELSE IF uuid \in DOMAIN discoveryCache
             THEN /\ handlers' = [handlers EXCEPT ![discoveryCache[uuid]].updates = @ + 1]
                  /\ done("updated")
                  /\ UNCHANGED <<accessories, discoveryCache, registered, updated>>
           ELSE IF ExistingAccessory(uuid)
             THEN /\ accessories' = [accessories EXCEPT ![uuid] = RefreshedContext(@)]
                  /\ updated' = Append(updated, uuid)
                  /\ handlers' = Append(handlers, NewHandler(uuid, reading))
                  /\ discoveryCache' = discoveryCache @@ (uuid :> Len(handlers) + 1)
                  /\ done("restored")
                  /\ UNCHANGED registered
           ELSE IF SanitizeThrows(reading.model)
             THEN \* line 175 raises before anything is constructed or registered
                  /\ done("threw")
                  /\ UNCHANGED <<accessories, discoveryCache, handlers, registered, updated>>
           ELSE   /\ handlers' = Append(handlers, NewHandler(uuid, reading))
                  /\ registered' = Append(registered, NewAccessory(uuid, reading))
                  /\ discoveryCache' = discoveryCache @@ (uuid :> Len(handlers) + 1)
                  /\ done("created")
                  /\ UNCHANGED <<accessories, updated>>
        /\ UNCHANGED <<platformStatus, isCooldown, scanDuration, sanitizeRun, radioVars, timerVars>>

-----------------------------------------------------------------------------
(* Scan cycle *)

\* the platform has finished launching and has not been shut down
PlatformRunning == platformStatus # "undefined" /\ platformStatus # "shutdown"

\* mutant: the scan timer armed for a scan duration of 0 too
ScanDurationNotNegative == scanDuration >= 0

\* if (this.config.scanDuration > 0)
ScanDurationSet == scanDuration > 0

\* startScanCycle(), called with the counters c
StartScanCycle(c) ==
    /\ scanning' = TRUE
    /\ readingCb' = TRUE
    /\ scanStartCb' = scanStartCb + 1
    /\ scanStopCb' = scanStopCb + 1
    /\ scanTimers' = IF ScanDurationSet THEN scanTimers + 1 ELSE scanTimers
    /\ calls' = [c EXCEPT !.start = @ + 1, !.startScan = @ + 1,
                          !.scanArmed = IF ScanDurationSet THEN @ + 1 ELSE @]
    /\ UNCHANGED stopEvents

\* api.on("didFinishLaunching")
DidFinishLaunching ==
    /\ platformStatus = "undefined"
    /\ platformStatus' = "didFinishLaunching"
    /\ isCooldown' = "false"
    /\ StartScanCycle(calls)
    /\ last' = Did("didFinishLaunching", "started")
    /\ UNCHANGED <<scanDuration, sanitizeRun, discoveryVars, cooldownTimers, stallTimers>>

\* api.on("shutdown")
Shutdown ==
    /\ platformStatus # "shutdown"
    /\ platformStatus' = "shutdown"
    /\ last' = Did("shutdown", "-")
    /\ UNCHANGED <<isCooldown, scanDuration, sanitizeRun, discoveryVars, radioVars, timerVars, calls>>

\* the setTimeout callback of startScanCycle
ScanTimerFires ==
    /\ scanTimers > 0
    /\ scanTimers' = scanTimers - 1
    /\ isCooldown' = "true"
    /\ calls' = Bump("stopScan")
    /\ scanning' = FALSE
    /\ IF scanning
         THEN stopEvents' = Append(stopEvents, "requested")
         ELSE \* no scan is running: the client may or may not report a stop
              \E notify \in BOOLEAN :
                 stopEvents' = IF notify THEN Append(stopEvents, "requested") ELSE stopEvents
    /\ last' = Did("scanTimer", "stopRequested")
    /\ UNCHANGED <<platformStatus, scanDuration, sanitizeRun, discoveryVars, readingCb, scanStartCb,
                   scanStopCb, cooldownTimers, stallTimers>>

\* radio: the scan stops without stopDiscovery having been called
Stall ==
    /\ scanning
    /\ calls.stalls < MaxStalls
    /\ scanning' = FALSE
    /\ stopEvents' = Append(stopEvents, "stall")
    /\ calls' = Bump("stalls")
    /\ last' = Did("stall", "-")
    /\ UNCHANGED <<platformStatus, isCooldown, scanDuration, sanitizeRun, discoveryVars, readingCb,
                   scanStartCb, scanStopCb, timerVars>>

\* goveeScanStarted: logs only
GoveeScanStarted ==
    /\ scanning
    /\ scanStartCb > 0
    /\ last' = Did("scanStarted", "logged")
    /\ UNCHANGED <<platformStatus, isCooldown, scanDuration, sanitizeRun, discoveryVars, radioVars,
                   timerVars, calls>>

\* mutant: the check of the platform status inverted
StallRecoveryInverted == ~PlatformRunning

\* mutant: the WAIT_INTERVAL callback without its check of the platform status
StallRecoveryUnchecked == TRUE

\* the second check of the platform status, in the WAIT_INTERVAL callback
StallRecoveryAllowed == PlatformRunning

\* mutant: the test of the flag inverted
CooldownPendingInverted == isCooldown # "true"

\* if (this.isCooldown)
CooldownPending == isCooldown = "true"

\* goveeScanStopped
GoveeScanStopped ==
    /\ stopEvents # <<>>
    /\ scanStopCb > 0
    /\ stopEvents' = Tail(stopEvents)
    /\ IF ~PlatformRunning
         THEN /\ last' = [Did("scanStopped", "ignored") EXCEPT !.tag = Head(stopEvents)]
              /\ calls' = Bump("stopsHandled")
              /\ UNCHANGED timerVars
       ELSE IF CooldownPending
         THEN /\ last' = [Did("scanStopped", "cooldown") EXCEPT !.tag = Head(stopEvents)]
              /\ cooldownTimers' = cooldownTimers + 1
              /\ calls' = [calls EXCEPT !.stopsHandled = @ + 1, !.cooldownArmed = @ + 1]
              /\ UNCHANGED <<scanTimers, stallTimers>>
       ELSE   /\ last' = [Did("scanStopped", "stall") EXCEPT !.tag = Head(stopEvents)]
              /\ stallTimers' = stallTimers + 1
              /\ calls' = [calls EXCEPT !.stopsHandled = @ + 1, !.stallArmed = @ + 1]
              /\ UNCHANGED <<scanTimers, cooldownTimers>>
    /\ UNCHANGED <<platformStatus, isCooldown, scanDuration, sanitizeRun, discoveryVars, scanning,
                   readingCb, scanStartCb, scanStopCb>>

\* the setTimeout callback of the cooldown branch of goveeScanStopped
CooldownTimerFires ==
    /\ cooldownTimers > 0
    /\ calls.start < MaxStarts
    /\ cooldownTimers' = cooldownTimers - 1
    /\ isCooldown' = "false"
    /\ StartScanCycle([calls EXCEPT !.cooldownFired = @ + 1])
    /\ last' = Did("cooldownTimer", "started")
    /\ UNCHANGED <<platformStatus, scanDuration, sanitizeRun, discoveryVars, stallTimers>>

\* mutant: the stall recovery runs startScanCycle instead of startDiscovery
StallTimerRestartsCycle ==
    /\ stallTimers > 0
    /\ stallTimers' = stallTimers - 1
    /\ IF ~StallRecoveryAllowed
         THEN /\ last' = Did("stallTimer", "ignored")
              /\ UNCHANGED <<radioVars, calls, scanTimers>>
         ELSE /\ last' = Did("stallTimer", "restarted")
              /\ StartScanCycle([calls EXCEPT !.warn = @ + 1])
    /\ UNCHANGED <<platformStatus, isCooldown, scanDuration, sanitizeRun, discoveryVars, cooldownTimers>>

\* the setTimeout callback of the stall branch of goveeScanStopped
StallTimerFires ==
    /\ stallTimers > 0
    /\ stallTimers' = stallTimers - 1
    /\ IF ~StallRecoveryAllowed
         THEN /\ last' = Did("stallTimer", "ignored")
              /\ UNCHANGED <<radioVars, calls>>
         ELSE /\ last' = Did("stallTimer", "restarted")
              /\ scanning' = TRUE
              /\ readingCb' = TRUE
              /\ calls' = [calls EXCEPT !.warn = @ + 1, !.startScan = @ + 1]
              /\ UNCHANGED <<scanStartCb, scanStopCb, stopEvents>>
    /\ UNCHANGED <<platformStatus, isCooldown, scanDuration, sanitizeRun, discoveryVars, scanTimers,
                   cooldownTimers>>

-----------------------------------------------------------------------------
(* Specification *)

ScanDurations == {0, 1000}

InitPlatform ==
    /\ platformStatus = "undefined"
    /\ isCooldown = "undefined"
    /\ scanDuration \in ScanDurations
    /\ accessories = <<>>
    /\ discoveryCache = <<>>
    /\ handlers = <<>>
    /\ registered = <<>>
    /\ updated = <<>>
    /\ routed = {}
    /\ last = Did("constructor", "-")
    /\ scanning = FALSE
    /\ readingCb = FALSE
    /\ scanStartCb = 0
    /\ scanStopCb = 0
    /\ stopEvents = <<>>
    /\ scanTimers = 0
    /\ cooldownTimers = 0
    /\ stallTimers = 0
    /\ calls = [start |-> 0, startScan |-> 0, stopScan |-> 0, warn |-> 0, stalls |-> 0,
                stopsHandled |-> 0, scanArmed |-> 0, cooldownArmed |-> 0,
                cooldownFired |-> 0, stallArmed |-> 0, readings |-> 0]

Init ==
    /\ InitPlatform
    /\ sanitizeRun = [input |-> <<>>, results |-> <<>>]

\* Routing of readings: the host restores accessories and launches the platform,
\* the radio then delivers readings.  goveeDiscoveredReading reads and writes
\* none of the scan cycle's state.
NextDiscovery ==
    \/ \E uuid \in PersistedUUIDs : ConfigureAccessory(uuid)
    \/ DidFinishLaunching
    \/ \E reading \in Readings : GoveeDiscoveredReading(reading)

SpecDiscovery == Init /\ [][NextDiscovery]_vars

\* Scan cycle: host events, timers and radio notifications.
NextScheduler ==
    \/ DidFinishLaunching
    \/ Shutdown
    \/ ScanTimerFires
    \/ Stall
    \/ GoveeScanStarted
    \/ GoveeScanStopped
    \/ CooldownTimerFires
    \/ StallTimerFires

SpecScheduler == Init /\ [][NextScheduler]_vars

\* setTimeout: a callback that is due is run by the event loop
TimersFire ==
    /\ WF_vars(ScanTimerFires)
    /\ WF_vars(CooldownTimerFires)
    /\ WF_vars(StallTimerFires)

SpecSchedulerFair == SpecScheduler /\ TimersFire

\* sanitize on its own: every string over Alphabet up to MaxStrLen characters
Alphabet == {"a", "_", " "}
Strings == UNION {[1..n -> Alphabet] : n \in 0..MaxStrLen}

InitSanitize ==
    /\ InitPlatform
    /\ sanitizeRun \in [input : Strings, results : {<<>>}]

\* this.sanitize(s), then this.sanitize of the result
ApplySanitize ==
    /\ Len(sanitizeRun.results) < 2
    /\ sanitizeRun' =
          [sanitizeRun EXCEPT !.results =
              Append(@, Sanitize(IF @ = <<>> THEN sanitizeRun.input ELSE @[Len(@)]))]
    /\ UNCHANGED <<platformStatus, isCooldown, scanDuration, discoveryVars, last,
                   radioVars, timerVars, calls>>

SpecSanitize == InitSanitize /\ [][ApplySanitize]_vars

-----------------------------------------------------------------------------
(* Claims on the routing of readings, checked under SpecDiscovery *)

HandlersOf(uuid) == {h \in 1..Len(handlers) : handlers[h].accessory = uuid}

\* C1: every identity key a reading was routed for has exactly one handler: the
\* first reading for the key constructs it and puts it in the discovery cache,
\* and no second handler is ever constructed for the key.
C1_OneHandlerPerRoutedKey ==
    \A r \in routed :
        /\ r.key \in DOMAIN discoveryCache
        /\ HandlersOf(r.key) = {discoveryCache[r.key]}

\* the part of C1 the code keeps: never two handlers for a key, and a cache
\* entry, once made, stays and keeps its handler
AtMostOneHandlerPerKey ==
    /\ \A h1, h2 \in 1..Len(handlers) :
          handlers[h1].accessory = handlers[h2].accessory => h1 = h2
    /\ \A uuid \in DOMAIN discoveryCache : HandlersOf(uuid) = {discoveryCache[uuid]}

CacheEntriesStay ==
    [][\A uuid \in DOMAIN discoveryCache :
          uuid \in DOMAIN discoveryCache' /\ discoveryCache'[uuid] = discoveryCache[uuid]]_vars

\* C2: registerPlatformAccessories is called at most once per identity key, and
\* never for a key of an accessory restored at startup.
C2_RegisterOncePerKey ==
    /\ \A i, j \in 1..Len(registered) :
          registered[i].UUID = registered[j].UUID => i = j
    /\ \A i \in 1..Len(registered) : registered[i].UUID \notin DOMAIN accessories

\* a registered key received a second reading, and a restored key received one
C2_Witness ==
    /\ Len(registered) = 1
    /\ handlers[discoveryCache[registered[1].UUID]].updates > 0
    /\ Len(updated) > 0

\* C3 as claimed: a reading with a non-empty uuid is keyed by its uuid, also
\* when it carries a model.
C3_KeyFromUuidWhenPresent ==
    (last.op = "reading" /\ Truthy(last.reading.uuid))
        => last.key = Generate(last.reading.uuid)

\* C3 as amended: a reading with a non-empty model is keyed by its model, also
\* when it carries a uuid; the uuid is used only when the model is missing or
\* empty.  Readings with the same model and different uuids get the same key.
C3_KeyFromModelWhenPresent ==
    last.op = "reading" =>
        /\ Truthy(last.reading.model) => last.key = Generate(last.reading.model)
        /\ (~Truthy(last.reading.model) /\ Truthy(last.reading.uuid))
              => last.key = Generate(last.reading.uuid)

\* a reading with a uuid and another model was routed to the handler that a
\* reading with the same model had made
C3_Witness ==
    /\ last.op = "reading"
    /\ Truthy(last.reading.uuid)
    /\ Truthy(last.reading.model)
    /\ last.reading.uuid # last.reading.model
    /\ last.outcome = "updated"
    /\ Generate(last.reading.uuid) \notin DOMAIN discoveryCache

\* C4 as claimed: the key is made from the sanitized id, so ids that differ only
\* by surrounding whitespace or an underscore share one key and one handler.
C4_KeyFromSanitizedId ==
    /\ \A r \in routed : r.key = Generate(Sanitize(r.id))
    /\ \A r1, r2 \in routed : Sanitize(r1.id) = Sanitize(r2.id) => r1.key = r2.key

\* C4 as amended: the key is made from the id as received.  Readings with the
\* same id share one key and one handler; ids that differ by whitespace or an
\* underscore have different keys and, once cached, different handlers.
C4_KeyFromRawId ==
    /\ \A r \in routed : r.key = Generate(r.id)
    /\ \A r1, r2 \in routed : (r1.key = r2.key) <=> (r1.id = r2.id)
    /\ \A r1, r2 \in routed :
          (r1.key \in DOMAIN discoveryCache /\ r2.key \in DOMAIN discoveryCache)
              => ((discoveryCache[r1.key] = discoveryCache[r2.key]) <=> (r1.id = r2.id))

\* "a_b" and " a_b " were both routed and have a handler each
C4_Witness ==
    /\ Generate(Str_a_b) \in DOMAIN discoveryCache
    /\ Generate(Str_sp_a_b_sp) \in DOMAIN discoveryCache
    /\ discoveryCache[Generate(Str_a_b)] # discoveryCache[Generate(Str_sp_a_b_sp)]
    /\ Sanitize(Str_a_b) = Sanitize(Str_sp_a_b_sp)

\* C5: a reading with neither a uuid nor a model is refused: the cache, the
\* handlers and the host's accessories are as before, nothing is registered
\* or updated.
C5_UnidentifiableRejected ==
    [][(/\ last'.op = "reading"
        /\ calls'.readings = calls.readings + 1
        /\ ~Truthy(last'.reading.uuid)
        /\ ~Truthy(last'.reading.model))
          => /\ last'.outcome = "rejected"
             /\ UNCHANGED <<accessories, discoveryCache, handlers, registered, updated>>]_vars

\* an unidentifiable reading arrived when the cache already held a handler
C5_Witness ==
    /\ last.op = "reading"
    /\ last.outcome = "rejected"
    /\ last.reading.uuid = <<>>
    /\ last.reading.model = Undefined
    /\ discoveryCache # <<>>

-----------------------------------------------------------------------------
(* Claims on the scan cycle, checked under SpecScheduler *)

\* C6: a cooldown timer that fires after shutdown does nothing: no startScanCycle,
\* no startDiscovery, no callback registered, no scan timer armed.
C6_CooldownTimerIdleAfterShutdown ==
    [][(platformStatus = "shutdown" /\ cooldownTimers' < cooldownTimers)
          => /\ calls'.start = calls.start
             /\ calls'.startScan = calls.startScan
             /\ UNCHANGED <<scanning, scanStartCb, scanStopCb, scanTimers>>]_vars

\* C7: a stall-recovery timer that fires after shutdown does nothing: no
\* startDiscovery, no warning, nothing registered or armed.
C7_StallTimerIdleAfterShutdown ==
    [][(platformStatus = "shutdown" /\ stallTimers' < stallTimers)
          => /\ calls' = calls
             /\ UNCHANGED <<isCooldown, radioVars, scanTimers, cooldownTimers>>]_vars

\* a stall-recovery timer armed while running fired after shutdown
C7_Witness ==
    /\ platformStatus = "shutdown"
    /\ last.op = "stallTimer"
    /\ calls.stallArmed > 0

\* C8: with scanDuration > 0 a cycle runs in this order.  startScanCycle starts
\* the scan and arms the scan timer; the scan timer sets isCooldown and calls
\* stopDiscovery; the scan stop then handled, with the platform running, arms the
\* cooldown timer and starts nothing; the cooldown timer calls startScanCycle.
\* startScanCycle runs a second time only from a cooldown timer, which only a
\* handled scan stop arms.  When the radio never stops by itself the steps are
\* strictly one after another: one timer or notification is pending at a time.
C8_CycleSteps ==
    scanDuration > 0 =>
        /\ calls'.start > calls.start
              => /\ calls'.start = calls.start + 1
                 /\ scanning'
                 /\ calls'.startScan = calls.startScan + 1
                 /\ scanTimers' = scanTimers + 1
                 /\ calls.start > 0 => cooldownTimers' = cooldownTimers - 1
        /\ scanTimers' < scanTimers
              => /\ isCooldown' = "true"
                 /\ calls'.stopScan = calls.stopScan + 1
                 /\ ~scanning'
                 /\ scanning => stopEvents' = Append(stopEvents, "requested")
        /\ (calls'.stopsHandled > calls.stopsHandled /\ PlatformRunning /\ isCooldown = "true")
              => /\ cooldownTimers' = cooldownTimers + 1
                 /\ calls'.start = calls.start
                 /\ UNCHANGED <<scanning, scanTimers, stallTimers>>
        /\ cooldownTimers' > cooldownTimers => calls'.stopsHandled > calls.stopsHandled
        /\ cooldownTimers' < cooldownTimers => calls'.start = calls.start + 1

C8_CycleCounts ==
    scanDuration > 0 =>
        /\ calls.start <= 1 + calls.cooldownFired
        /\ calls.cooldownFired + cooldownTimers = calls.cooldownArmed
        /\ calls.cooldownArmed <= calls.stopsHandled
        /\ calls.stalls = 0 =>
              /\ stallTimers = 0
              /\ scanTimers + Len(stopEvents) + cooldownTimers <= 1
              /\ scanning <=> scanTimers = 1

C8_DutyCycleOrder == [][C8_CycleSteps]_vars /\ []C8_CycleCounts

\* a whole cycle has run without a stall: the second startScanCycle has just been
\* made by the cooldown timer
C8_Witness ==
    /\ scanDuration > 0
    /\ PlatformRunning
    /\ last.op = "cooldownTimer"
    /\ calls.start = 2 /\ calls.stopScan = 1 /\ calls.stopsHandled = 1
    /\ calls.cooldownFired = 1
    /\ calls.stalls = 0
    /\ scanning /\ scanTimers = 1

\* C9: goveeScanStopped takes the cooldown branch only for a stop that
\* stopDiscovery asked for, and the stall branch for every stop it did not.
C9_FlagTellsRequestedFromStall ==
    (last.op = "scanStopped" /\ last.outcome # "ignored")
        => /\ last.outcome = "cooldown" => last.tag = "requested"
           /\ last.tag = "stall" => last.outcome = "stall"

\* C10: with scanDuration = 0 startScanCycle runs once, no scan timer is armed,
\* isCooldown is never true, no cooldown timer is armed, and every scan stop
\* handled while the platform runs arms the stall-recovery timer.
C10_NoCycleWithoutScanDuration ==
    scanDuration = 0 =>
        /\ calls.start <= 1
        /\ calls.scanArmed = 0 /\ scanTimers = 0
        /\ isCooldown # "true"
        /\ calls.cooldownArmed = 0 /\ cooldownTimers = 0
        /\ last.op = "scanStopped" =>
              /\ last.outcome \in {"stall", "ignored"}
              /\ last.outcome = "ignored" => ~PlatformRunning

\* with scanDuration = 0, a second scan stop was handled by the stall branch
C10_Witness ==
    /\ scanDuration = 0
    /\ last.op = "scanStopped"
    /\ last.outcome = "stall"
    /\ calls.stallArmed = 2
    /\ calls.startScan = 2

-----------------------------------------------------------------------------
(* Further claims on the routing of readings, checked under SpecDiscovery *)

\* a reading has just been handled
ReadingStep == calls'.readings = calls.readings + 1

\* C11: a reading whose key is not in the discovery cache but belongs to a
\* restored accessory binds a new handler to that accessory, sets the
\* accessory's batteryThreshold and humidityOffset to the configured values,
\* calls updatePlatformAccessories for it, caches the handler, and neither
\* creates nor registers an accessory.
C11_RestoredRouting ==
    [][(/\ ReadingStep
        /\ last'.key # Undefined
        /\ last'.key \notin DOMAIN discoveryCache
        /\ last'.key \in DOMAIN accessories)
          => /\ last'.outcome = "restored"
             /\ handlers' = Append(handlers, [accessory |-> last'.key, updates |-> 0])
             /\ DOMAIN accessories' = DOMAIN accessories
             /\ accessories'[last'.key].batteryThreshold = ConfigBatteryThreshold
             /\ accessories'[last'.key].humidityOffset = ConfigHumidityOffset
             /\ \A uuid \in DOMAIN accessories \ {last'.key} :
                   accessories'[uuid] = accessories[uuid]
             /\ updated' = Append(updated, last'.key)
             /\ DOMAIN discoveryCache' = DOMAIN discoveryCache \cup {last'.key}
             /\ discoveryCache'[last'.key] = Len(handlers')
             /\ registered' = registered]_vars

\* a restored accessory with stale settings got its first reading
C11_Witness ==
    /\ last.op = "reading"
    /\ last.outcome = "restored"
    /\ accessories[last.key] # StaleContext
    /\ updated = <<last.key>>
    /\ registered = <<>>
    /\ Cardinality(DOMAIN accessories) = 2

\* C12: a reading that resolves to a key, by its uuid alone, its model alone or
\* both, with the key in neither the discovery cache nor the restored
\* accessories, creates an accessory (sanitized address, sanitized model, the
\* key), binds a handler to it, registers it once and leaves the key cached.
C12_CreatedRoutingCompletes ==
    [][(/\ ReadingStep
        /\ last'.key # Undefined
        /\ last'.key \notin DOMAIN discoveryCache
        /\ last'.key \notin DOMAIN accessories)
          => /\ last'.outcome = "created"
             /\ Len(registered') = Len(registered) + 1
             /\ registered'[Len(registered')].UUID = last'.key
             /\ registered'[Len(registered')].context.device.address
                   = Sanitize(last'.reading.address)
             /\ registered'[Len(registered')].context.device.model
                   = Sanitize(last'.reading.model)
             /\ handlers' = Append(handlers, [accessory |-> last'.key, updates |-> 0])
             /\ last'.key \in DOMAIN discoveryCache'
             /\ discoveryCache'[last'.key] = Len(handlers')]_vars

\* C13: a reading of a device whose name is in IgnoreDeviceNames makes no cache
\* entry, constructs and updates no handler, and causes no register or update
\* call.
C13_IgnoredNamesExcluded ==
    [][(/\ ReadingStep
        /\ \/ last'.reading.model \in IgnoreDeviceNames
           \/ (/\ ~SanitizeThrows(last'.reading.model)
               /\ Sanitize(last'.reading.model) \in IgnoreDeviceNames))
          => UNCHANGED <<accessories, discoveryCache, handlers, registered, updated>>]_vars

-----------------------------------------------------------------------------
(* Further claims on the scan cycle *)

\* the step just taken called startDiscovery
RestartedScan ==
    \/ last.op = "cooldownTimer"
    \/ last.op = "stallTimer" /\ last.outcome = "restarted"

\* a cooldown timer is due that the bound on startScanCycle runs keeps pending
RunLengthReached == cooldownTimers > 0 /\ calls.start >= MaxStarts

\* C14 (under SpecSchedulerFair): every scan stop handled while the platform
\* runs is followed by a startDiscovery call, unless the platform is shut down
\* first; timers are assumed to fire, within MaxStarts runs of startScanCycle.
C14_ScanStopsSelfHeal ==
    (last.op = "scanStopped" /\ last.outcome # "ignored")
        ~> (RestartedScan \/ platformStatus = "shutdown" \/ RunLengthReached)

\* a requested stop and a stall have both been followed by a restart
C14_Witness ==
    /\ PlatformRunning
    /\ last.op = "stallTimer" /\ last.outcome = "restarted"
    /\ calls.cooldownFired > 0
    /\ calls.stallArmed > 0
    /\ scanning

\* C15: a stall-recovery timer that fires while the platform runs calls
\* startDiscovery with the reading callback (after logging its warning) and
\* does nothing else: no scan-start or scan-stop callback is registered, no
\* scan or cooldown timer is armed, isCooldown keeps its value.
C15_StallRecoveryRestartsScanOnly ==
    [][(stallTimers' < stallTimers /\ PlatformRunning)
          => /\ scanning' /\ readingCb'
             /\ calls' = [calls EXCEPT !.startScan = @ + 1, !.warn = @ + 1]
             /\ stallTimers' = stallTimers - 1
             /\ UNCHANGED <<scanStartCb, scanStopCb, stopEvents, scanTimers,
                            cooldownTimers, isCooldown, platformStatus>>]_vars

\* the recovery restarted a scan that had stalled, with scanDuration > 0
C15_Witness ==
    /\ scanDuration > 0
    /\ PlatformRunning
    /\ last.op = "stallTimer" /\ last.outcome = "restarted"
    /\ scanning
    /\ calls.startScan = calls.start + 1

\* C16: a scan timer that fires after shutdown does nothing: isCooldown is not
\* set and stopDiscovery is not called.
C16_ScanTimerIdleAfterShutdown ==
    [][(platformStatus = "shutdown" /\ scanTimers' < scanTimers)
          => /\ isCooldown' = isCooldown
             /\ calls'.stopScan = calls.stopScan
             /\ UNCHANGED <<scanning, stopEvents>>]_vars

\* C17: isCooldown is cleared when the requested scan stop is handled, so it is
\* not true while a cooldown timer is pending, and a scan stop handled while a
\* cooldown timer is pending arms no second cooldown timer.
C17_FlagClearedWhenStopHandled ==
    [][(calls'.stopsHandled > calls.stopsHandled /\ PlatformRunning)
          => /\ cooldownTimers' > cooldownTimers => isCooldown' # "true"
             /\ cooldownTimers > 0 => cooldownTimers' = cooldownTimers]_vars

\* the part of C17 about the second timer alone
NoSecondCooldownTimer ==
    [][(calls'.stopsHandled > calls.stopsHandled /\ PlatformRunning /\ cooldownTimers > 0)
          => cooldownTimers' = cooldownTimers]_vars

\* C19: at most one scan timer and at most one cooldown timer are pending,
\* whatever stops the radio notifies.
C19_CyclesNeverMultiply == scanTimers <= 1 /\ cooldownTimers <= 1

\* C20: with scanDuration > 0, while the platform runs and the radio scans, a
\* scan timer is pending (a scan whose stop was asked for is no longer
\* scanning).
C20_EveryScanHasAnEnd ==
    (scanDuration > 0 /\ PlatformRunning /\ scanning) => scanTimers > 0

-----------------------------------------------------------------------------
(* Claim on sanitize, checked under SpecSanitize *)

\* C18: the result of sanitize holds no underscore, and sanitize applied to the
\* result returns the result.
C18_SanitizeStripsAndIdempotent ==
    LET r == sanitizeRun.results
    IN  /\ Len(r) >= 1 => \A i \in 1..Len(r[1]) : r[1][i] # "_"
        /\ Len(r) >= 2 => r[2] = r[1]

====
